---- MODULE Spec2Model ----
(***************************************************************************)
(* The OpenCPX Go SDK (package cpx): the Posture document, its builder     *)
(* methods and the posture aggregation CalculateOverallPosture.            *)
(*                                                                         *)
(* Representation:                                                         *)
(*   - a float64 score s is the integer s * 10^7, so 1.0 is ScoreOne,      *)
(*     1.0000001 is ScoreOne + 1 and -0.0001 is -1000;                     *)
(*   - a pointer or an optional value is a sequence: <<>> is nil and       *)
(*     <<v>> points to v;                                                  *)
(*   - a Go map is a function; the nil map is the function of domain {};   *)
(*   - time.Time is a natural number drawn from Times;                     *)
(*   - a JSON object is the sequence of its members <<key, kind, value>>   *)
(*     in the order they are written, kind being one of "string",          *)
(*     "number", "array", "object", "null"; a JSON array is a sequence.    *)
(***************************************************************************)
EXTENDS Integers, Sequences, FiniteSets, TLC

\* ------------------------------------------------------------------ bounds
MaxFrameworks == 2
MaxTime == 2
\* the longest framework list of a posture served over HTTP
MaxServedFrameworks == 1

\* --------------------------------------------------------------- constants
Version == "v1"

PostureCompliant == "compliant"
PosturePartiallyCompliant == "partially_compliant"
PostureNonCompliant == "non_compliant"
PostureUnknown == "unknown"

StatusCompliant == "compliant"
StatusPartial == "partial"
StatusNonCompliant == "non_compliant"

\* 1.0 in the fixed-point representation of float64 scores
ScoreOne == 10 ^ 7

\* the zero value of a Go string type (CompliancePosture, FrameworkStatus)
ZeroString == ""

\* the *Posture every builder method returns for chaining
ReturnsP == "p"

\* ------------------------------------------------------------------ inputs
Times == 1..MaxTime

CompliancePostures ==
  {PostureCompliant, PosturePartiallyCompliant, PostureNonCompliant, PostureUnknown}

FrameworkStatuses == {StatusCompliant, StatusPartial, StatusNonCompliant}

\* NewFramework: the required fields and an empty, non-nil Controls slice
NewFramework(name, status, score) ==
  [Name |-> name, Status |-> status, Score |-> score, Controls |-> <<>>]

\* a FrameworkStatus outside the three constants: the type is a string
StatusOther == "in_progress"

\* the frameworks a caller hands to AddFramework: the three statuses on
\* well-formed frameworks (scores 1.0, 0.85, 0.0), three malformed ones
\* (score 1.0000001, score -0.0001, empty name) and one whose status is
\* none of the three constants
FrameworkInputs ==
  { NewFramework("SOC2", StatusCompliant, ScoreOne),
    NewFramework("ISO27001", StatusPartial, 8500000),
    NewFramework("HIPAA", StatusNonCompliant, 0),
    NewFramework("SOC2", StatusCompliant, ScoreOne + 1),
    NewFramework("ISO27001", StatusPartial, -1000),
    NewFramework("", StatusNonCompliant, 5000000),
    NewFramework("PCI-DSS", StatusOther, ScoreOne) }

Organizations ==
  { [Name |-> "Acme Corp", Domain |-> "acme.com", Contact |-> "security@acme.com"],
    [Name |-> "Globex", Domain |-> "", Contact |-> ""] }

ExtensionKeys == {"x-acme-tier"}

\* a Go channel: a value encoding/json has no encoding for
ChanValue == "<chan int>"

\* AddExtension takes any interface{} value
ExtensionValues == {"gold", "silver", ChanValue}

\* the nil map
NilMap == [k \in {} |-> ""]

\* ------------------------------------------------------------------- state
VARIABLES
  p,       \* the Posture under construction
  lastOp,  \* the name of the method called last
  arg,     \* <<argument>> of that call, <<>> when it takes none
  ret,     \* what that call returned
  posSet   \* TRUE once SetPosture has been called on p

vars == <<p, lastOp, arg, ret, posSet>>

\* ------------------------------------------------------------- aggregation
\* the loop of CalculateOverallPosture from index i on, with the two flags
RECURSIVE CalculateLoop(_, _, _, _)
CalculateLoop(fs, i, allCompliant, anyCompliant) ==
  IF i > Len(fs)
    THEN [allCompliant |-> allCompliant, anyCompliant |-> anyCompliant]
    ELSE IF fs[i].Status = StatusCompliant
      THEN CalculateLoop(fs, i + 1, allCompliant, TRUE)
      ELSE CalculateLoop(fs, i + 1, FALSE, anyCompliant)

\* a roll-up that treats partial as its own case
CalculateOverallPosture_PartialAware(fs) ==
  IF Len(fs) = 0 THEN PostureUnknown
  ELSE IF \A i \in 1..Len(fs) : fs[i].Status = StatusCompliant THEN PostureCompliant
  ELSE IF \E i \in 1..Len(fs) : fs[i].Status \in {StatusCompliant, StatusPartial}
    THEN PosturePartiallyCompliant
  ELSE PostureNonCompliant

\* the anyCompliant branch dropped: not all compliant rolls up as non_compliant
CalculateOverallPosture_NoAny(fs) ==
  IF Len(fs) = 0 THEN PostureUnknown
  ELSE IF CalculateLoop(fs, 1, TRUE, FALSE).allCompliant THEN PostureCompliant
  ELSE PostureNonCompliant

\* the two tests in the wrong order: anyCompliant is tested first
CalculateOverallPosture_AnyFirst(fs) ==
  IF Len(fs) = 0 THEN PostureUnknown
  ELSE LET r == CalculateLoop(fs, 1, TRUE, FALSE)
       IN IF r.anyCompliant THEN PosturePartiallyCompliant
          ELSE IF r.allCompliant THEN PostureCompliant
          ELSE PostureNonCompliant

\* the empty-list test dropped: allCompliant stays true over no frameworks
CalculateOverallPosture_NoEmptyTest(fs) ==
  LET r == CalculateLoop(fs, 1, TRUE, FALSE)
  IN IF r.allCompliant THEN PostureCompliant
     ELSE IF r.anyCompliant THEN PosturePartiallyCompliant
     ELSE PostureNonCompliant

CalculateOverallPosture(fs) ==
  IF Len(fs) = 0 THEN PostureUnknown
  ELSE LET r == CalculateLoop(fs, 1, TRUE, FALSE)
       IN IF r.allCompliant THEN PostureCompliant
          ELSE IF r.anyCompliant THEN PosturePartiallyCompliant
          ELSE PostureNonCompliant

\* ------------------------------------------------------------ construction
\* a struct literal that leaves Version out: the field keeps its zero value
NewPostureValue_NoVersion(t) ==
  [ Version |-> ZeroString,
    Timestamp |-> t,
    CompliancePosture |-> ZeroString,
    Organization |-> <<>>,
    Frameworks |-> <<>>,
    FrameworksNil |-> FALSE,
    EvidenceRefs |-> <<>>,
    Extensions |-> NilMap ]

\* a struct literal that leaves Frameworks out: the slice is nil
NewPostureValue_NilFrameworks(t) ==
  [ Version |-> Version,
    Timestamp |-> t,
    CompliancePosture |-> ZeroString,
    Organization |-> <<>>,
    Frameworks |-> <<>>,
    FrameworksNil |-> TRUE,
    EvidenceRefs |-> <<>>,
    Extensions |-> NilMap ]

\* the struct literal of NewPosture; the fields it does not name keep their
\* zero value. Frameworks is the empty slice []Framework{}, not the nil
\* slice: FrameworksNil tells the two apart (both are <<>> in Frameworks).
NewPostureValue(t) ==
  [ Version |-> Version,
    Timestamp |-> t,
    CompliancePosture |-> ZeroString,
    Organization |-> <<>>,
    Frameworks |-> <<>>,
    FrameworksNil |-> FALSE,
    EvidenceRefs |-> <<>>,
    Extensions |-> NilMap ]

Init ==
  /\ \E t \in Times : p = NewPostureValue(t)
  /\ lastOp = "NewPosture"
  /\ arg = <<>>
  /\ ret = ReturnsP
  /\ posSet = FALSE

\* ----------------------------------------------------------------- actions
NewPosture ==
  /\ \E t \in Times : p' = NewPostureValue(t)
  /\ lastOp' = "NewPosture"
  /\ arg' = <<>>
  /\ ret' = ReturnsP
  /\ posSet' = FALSE

\* an insert at the head of the list
AddFramework_Prepends(f) ==
  /\ Len(p.Frameworks) < MaxFrameworks
  /\ p' = [p EXCEPT !.Frameworks = <<f>> \o @, !.FrameworksNil = FALSE]
  /\ lastOp' = "AddFramework"
  /\ arg' = <<f>>
  /\ ret' = ReturnsP
  /\ UNCHANGED posSet

\* append never returns nil for a list it added an element to
AddFramework(f) ==
  /\ Len(p.Frameworks) < MaxFrameworks
  /\ p' = [p EXCEPT !.Frameworks = Append(@, f), !.FrameworksNil = FALSE]
  /\ lastOp' = "AddFramework"
  /\ arg' = <<f>>
  /\ ret' = ReturnsP
  /\ UNCHANGED posSet

SetOrganization(org) ==
  /\ p' = [p EXCEPT !.Organization = <<org>>]
  /\ lastOp' = "SetOrganization"
  /\ arg' = <<org>>
  /\ ret' = ReturnsP
  /\ UNCHANGED posSet

\* a setter that keeps the first value it was given
SetPosture_KeepsFirst(posture) ==
  /\ p' = [p EXCEPT !.CompliancePosture = IF @ = ZeroString THEN posture ELSE @]
  /\ lastOp' = "SetPosture"
  /\ arg' = <<posture>>
  /\ ret' = ReturnsP
  /\ posSet' = TRUE

SetPosture(posture) ==
  /\ p' = [p EXCEPT !.CompliancePosture = posture]
  /\ lastOp' = "SetPosture"
  /\ arg' = <<posture>>
  /\ ret' = ReturnsP
  /\ posSet' = TRUE

AddExtension(key, value) ==
  /\ p' = [p EXCEPT !.Extensions =
             [k \in DOMAIN @ \cup {key} |-> IF k = key THEN value ELSE @[k]]]
  /\ lastOp' = "AddExtension"
  /\ arg' = <<key, value>>
  /\ ret' = ReturnsP
  /\ UNCHANGED posSet

\* a call that stores its result in the field it is computed for
CallCalculateOverallPosture_Stores ==
  /\ p' = [p EXCEPT !.CompliancePosture = CalculateOverallPosture(p.Frameworks)]
  /\ lastOp' = "CalculateOverallPosture"
  /\ arg' = <<>>
  /\ ret' = CalculateOverallPosture(p.Frameworks)
  /\ UNCHANGED posSet

CallCalculateOverallPosture ==
  /\ lastOp' = "CalculateOverallPosture"
  /\ arg' = <<>>
  /\ ret' = CalculateOverallPosture(p.Frameworks)
  /\ UNCHANGED <<p, posSet>>

\* ----------------------------------------------------------- serialization
\* zero or one member of a JSON object
Opt(present, member) == IF present THEN <<member>> ELSE <<>>

\* whether a JSON object has a member of that name, and the member
HasKey(doc, key) == \E i \in 1..Len(doc) : doc[i][1] = key

Member(doc, key) == doc[CHOOSE i \in 1..Len(doc) : doc[i][1] = key]

\* NewControl: the required fields; the optional ones stay empty
NewControl(id, status) == [ID |-> id, Status |-> status]

\* Control: id and status always; the optional fields, empty in the model,
\* are left out
MarshalControl(c) ==
  <<<<"id", "string", c.ID>>, <<"status", "string", c.Status>>>>

\* an element of Posture.EvidenceRefs ([]interface{}) is <<"string", url>>
\* or <<"EvidenceRef", struct>>; json writes the first as a string and the
\* second as an object under the EvidenceRef tags (url always, type with
\* omitempty)
MarshalEvidenceRef(e) ==
  IF e[1] = "string" THEN <<"string", e[2]>>
  ELSE <<"object",
         Opt(e[2].Type # "", <<"type", "string", e[2].Type>>)
         \o <<<<"url", "string", e[2].URL>>>>>>

MarshalEvidenceRefs(q) ==
  <<"evidence_refs", "array",
    [i \in 1..Len(q.EvidenceRefs) |-> MarshalEvidenceRef(q.EvidenceRefs[i])]>>

\* time.Time.MarshalJSON: RFC 3339 with the UTC designator
FormatTime(t) == <<t, "Z">>

\* Organization: name always, domain and contact with omitempty
MarshalOrganization(o) ==
  <<<<"name", "string", o.Name>>>>
  \o Opt(o.Domain # "", <<"domain", "string", o.Domain>>)
  \o Opt(o.Contact # "", <<"contact", "string", o.Contact>>)

\* Framework: name, status, score always; controls with omitempty, which
\* leaves out a slice of length 0, nil or not. The optional strings the
\* model never sets are empty and left out.
MarshalFramework(f) ==
  <<<<"name", "string", f.Name>>,
    <<"status", "string", f.Status>>,
    <<"score", "number", f.Score>>>>
  \o Opt(Len(f.Controls) > 0,
         <<"controls", "array",
           [i \in 1..Len(f.Controls) |-> MarshalControl(f.Controls[i])]>>)

\* the frameworks member: a nil slice is written as null, any other as an array
MarshalFrameworks(q) ==
  IF q.FrameworksNil /\ Len(q.Frameworks) = 0
    THEN <<"frameworks", "null", <<>>>>
    ELSE <<"frameworks", "array",
           [i \in 1..Len(q.Frameworks) |-> MarshalFramework(q.Frameworks[i])]>>

\* organization written without omitempty: a nil pointer becomes null
MarshalPosture_OrgNull(q) ==
  <<<<"version", "string", q.Version>>,
    <<"timestamp", "string", FormatTime(q.Timestamp)>>,
    <<"compliance_posture", "string", q.CompliancePosture>>>>
  \o <<IF q.Organization = <<>>
         THEN <<"organization", "null", <<>>>>
         ELSE <<"organization", "object", MarshalOrganization(q.Organization[1])>>>>
  \o <<MarshalFrameworks(q)>>
  \o Opt(Len(q.EvidenceRefs) > 0, MarshalEvidenceRefs(q))
  \o Opt(DOMAIN q.Extensions # {}, <<"extensions", "object", q.Extensions>>)

\* the Posture struct under its json tags, fields in declaration order
MarshalPosture(q) ==
  <<<<"version", "string", q.Version>>,
    <<"timestamp", "string", FormatTime(q.Timestamp)>>,
    <<"compliance_posture", "string", q.CompliancePosture>>>>
  \o Opt(q.Organization # <<>>,
         <<"organization", "object", MarshalOrganization(q.Organization[1])>>)
  \o <<MarshalFrameworks(q)>>
  \o Opt(Len(q.EvidenceRefs) > 0, MarshalEvidenceRefs(q))
  \o Opt(DOMAIN q.Extensions # {}, <<"extensions", "object", q.Extensions>>)

\* the error of json.Marshal on a Posture, "" for none: an extension value
\* of a type without an encoding
MarshalError(q) ==
  IF \E k \in DOMAIN q.Extensions : q.Extensions[k] = ChanValue
    THEN "json: unsupported type: chan int"
    ELSE ""

\* json.Marshal / json.MarshalIndent of a *Posture: (bytes, error). The
\* bytes are <<kind, indent, document>>; a nil pointer is written as null;
\* on an error the bytes are nil.
Marshal(ptr, indent) ==
  IF ptr = <<>> THEN [data |-> <<"null", indent, <<>>>>, err |-> ""]
  ELSE IF MarshalError(ptr[1]) # "" THEN [data |-> <<>>, err |-> MarshalError(ptr[1])]
  ELSE [data |-> <<"object", indent, MarshalPosture(ptr[1])>>, err |-> ""]

\* a serializer that stamps the document with the time of serialization
CallToJSON_Restamps ==
  /\ \E t \in Times : p' = [p EXCEPT !.Timestamp = t]
  /\ lastOp' = "ToJSON"
  /\ arg' = <<>>
  /\ ret' = Marshal(<<p'>>, "")
  /\ UNCHANGED posSet

CallToJSON ==
  /\ lastOp' = "ToJSON"
  /\ arg' = <<>>
  /\ ret' = Marshal(<<p>>, "")
  /\ UNCHANGED <<p, posSet>>

CallToJSONIndent ==
  /\ lastOp' = "ToJSONIndent"
  /\ arg' = <<>>
  /\ ret' = Marshal(<<p>>, "  ")
  /\ UNCHANGED <<p, posSet>>

Next ==
  \/ NewPosture
  \/ \E f \in FrameworkInputs : AddFramework(f)
  \/ \E org \in Organizations : SetOrganization(org)
  \/ \E posture \in CompliancePostures : SetPosture(posture)
  \/ \E key \in ExtensionKeys, value \in ExtensionValues : AddExtension(key, value)
  \/ CallCalculateOverallPosture
  \/ CallToJSON
  \/ CallToJSONIndent

Spec == Init /\ [][Next]_vars

\* ------------------------------------------------------------ HTTP handler
\* The hosting application builds the posture p; its provider hands the
\* handler a pointer to p or nil, and an error or nil ("").
Methods == {"GET", "POST", "HEAD"}

\* the value of the format query parameter, "" when it is absent
Formats == {"", "yaml"}

Requests == [Method : Methods, Format : Formats]

ProviderErrors == {"dial tcp 10.0.0.5:5432: connection refused",
                   "vault: token s.3cr3t expired"}

\* what provider() can return while the application holds posture q
ProviderResults(q) ==
  [posture : {<<>>, <<q>>}, err : {""} \cup ProviderErrors]

EmptyHeader == [k \in {} |-> ""]

\* http.Header.Set
SetHeader(h, key, value) ==
  [k \in DOMAIN h \cup {key} |-> IF k = key THEN value ELSE h[k]]

\* http.Error on a response whose header is h: a plain-text content type
\* replaces any other, the status is written, then the message and a newline
HttpError(h, msg, code) ==
  [ Status |-> code,
    Header |-> SetHeader(SetHeader(h, "Content-Type", "text/plain; charset=utf-8"),
                         "X-Content-Type-Options", "nosniff"),
    Body |-> <<"text", msg, "\n">> ]

\* a handler that passes the provider's error text on to the client
HandlerResponse_LeaksError(req, res) ==
  IF req.Method # "GET"
    THEN HttpError(EmptyHeader, "Method not allowed", 405)
  ELSE IF res.err # ""
    THEN HttpError(EmptyHeader, res.err, 500)
  ELSE IF req.Format = "yaml"
    THEN HttpError(SetHeader(EmptyHeader, "Content-Type", "application/json"),
                   "{\"error\": \"YAML format requires gopkg.in/yaml.v3\"}", 501)
  ELSE LET m == Marshal(res.posture, "  ")
       IN IF m.err # ""
            THEN HttpError(EmptyHeader, "Failed to serialize posture", 500)
            ELSE [ Status |-> 200,
                   Header |-> SetHeader(SetHeader(EmptyHeader,
                                "Content-Type", "application/json"),
                                "X-CPX-Version", Version),
                   Body |-> <<"bytes", m.data>> ]

\* the response the function returned by Handler writes for request req when
\* the provider returns res; the provider is called for GET requests only
HandlerResponse(req, res) ==
  IF req.Method # "GET"
    THEN HttpError(EmptyHeader, "Method not allowed", 405)
  ELSE IF res.err # ""
    THEN HttpError(EmptyHeader, "Internal server error", 500)
  ELSE IF req.Format = "yaml"
    THEN HttpError(SetHeader(EmptyHeader, "Content-Type", "application/json"),
                   "{\"error\": \"YAML format requires gopkg.in/yaml.v3\"}", 501)
  ELSE LET m == Marshal(res.posture, "  ")
       IN IF m.err # ""
            THEN HttpError(EmptyHeader, "Failed to serialize posture", 500)
            ELSE [ Status |-> 200,
                   Header |-> SetHeader(SetHeader(EmptyHeader,
                                "Content-Type", "application/json"),
                                "X-CPX-Version", Version),
                   Body |-> <<"bytes", m.data>> ]

\* one request served by the Go handler
Handler(req, res) ==
  /\ lastOp' = "Handler"
  /\ arg' = <<req, res>>
  /\ ret' = HandlerResponse(req, res)
  /\ UNCHANGED <<p, posSet>>

\* JS SDK, JSON.stringify of a framework object made by createFramework:
\* every property the object has is written, the empty controls array too
StringifyFramework(f) ==
  <<<<"name", "string", f.Name>>,
    <<"status", "string", f.Status>>,
    <<"score", "number", f.Score>>,
    <<"controls", "array", f.Controls>>>>

\* JS SDK, Posture.toObject
ToObject(q) ==
  <<<<"version", "string", q.Version>>,
    <<"timestamp", "string", FormatTime(q.Timestamp)>>,
    <<"compliance_posture", "string", q.CompliancePosture>>,
    <<"frameworks", "array",
      [i \in 1..Len(q.Frameworks) |-> StringifyFramework(q.Frameworks[i])]>>>>
  \o Opt(q.Organization # <<>>, <<"organization", "object", q.Organization[1]>>)
  \o Opt(Len(q.EvidenceRefs) > 0, <<"evidence_refs", "array", q.EvidenceRefs>>)
  \o Opt(DOMAIN q.Extensions # {}, <<"extensions", "object", q.Extensions>>)

\* res.status(code).json(body) of Express on a response whose header is h
ExpressJson(h, code, kind, body) ==
  [ Status |-> code,
    Header |-> SetHeader(h, "Content-Type", "application/json"),
    Body |-> <<kind, body>> ]

\* JS SDK, the response of the function returned by createExpressHandler:
\* the method is not looked at; a provider that throws, or a missing posture
\* (toObject of undefined throws after the headers are set), is caught
CreateExpressHandlerResponse(req, res) ==
  IF res.err # ""
    THEN ExpressJson(EmptyHeader, 500, "error", "Internal server error")
  ELSE LET h == SetHeader(SetHeader(EmptyHeader, "Content-Type", "application/json"),
                          "X-CPX-Version", Version)
       IN IF res.posture = <<>>
            THEN ExpressJson(h, 500, "error", "Internal server error")
            ELSE ExpressJson(h, 200, "object", ToObject(res.posture[1]))

\* one request served by the JS Express handler
CreateExpressHandler(req, res) ==
  /\ lastOp' = "createExpressHandler"
  /\ arg' = <<req, res>>
  /\ ret' = CreateExpressHandlerResponse(req, res)
  /\ UNCHANGED <<p, posSet>>

\* the application builds a posture with the builder methods and serves it
NextHandler ==
  \/ NewPosture
  \/ \E f \in FrameworkInputs :
       Len(p.Frameworks) < MaxServedFrameworks /\ AddFramework(f)
  \/ \E posture \in CompliancePostures : SetPosture(posture)
  \/ \E key \in ExtensionKeys, value \in ExtensionValues : AddExtension(key, value)
  \/ \E req \in Requests, res \in ProviderResults(p) : Handler(req, res)
  \/ \E req \in Requests, res \in ProviderResults(p) : CreateExpressHandler(req, res)

SpecHandler == Init /\ [][NextHandler]_vars

\* ------------------------------------------- frameworks across the four SDKs
SDKs == {"go", "js", "java", "dotnet"}

FrameworkNames == {"SOC2", "ISO27001"}

Scores == {0, 8500000, ScoreOne}

\* Java SDK, Framework(name, status, score): controls is a new, empty list
JavaNewFramework(name, status, score) ==
  [Name |-> name, Status |-> status, Score |-> score, Controls |-> << <<>> >>]

\* Java SDK, Jackson with Include.NON_NULL: a member for every field that is
\* not null, an empty list included
JacksonFramework(f) ==
  <<<<"name", "string", f.Name>>,
    <<"status", "string", f.Status>>,
    <<"score", "number", f.Score>>>>
  \o Opt(f.Controls # <<>>, <<"controls", "array", f.Controls[1]>>)

\* .NET SDK, Framework(name, status, score): Controls stays null
DotnetNewFramework(name, status, score) ==
  [Name |-> name, Status |-> status, Score |-> score, Controls |-> <<>>]

\* .NET SDK, System.Text.Json with JsonIgnoreCondition.WhenWritingNull
DotnetFramework(f) ==
  <<<<"name", "string", f.Name>>,
    <<"status", "string", f.Status>>,
    <<"score", "number", f.Score>>>>
  \o Opt(f.Controls # <<>>, <<"controls", "array", f.Controls[1]>>)

\* a framework made by the SDK's constructor, no control added, serialized
\* by the SDK (createFramework of the JS SDK makes the object NewFramework
\* makes: name, status, score and an empty controls array)
NewFrameworkJson(sdk, name, status, score) ==
  CASE sdk = "go" -> MarshalFramework(NewFramework(name, status, score))
    [] sdk = "js" -> StringifyFramework(NewFramework(name, status, score))
    [] sdk = "java" -> JacksonFramework(JavaNewFramework(name, status, score))
    [] sdk = "dotnet" -> DotnetFramework(DotnetNewFramework(name, status, score))

SerializeNewFramework(sdk, name, status, score) ==
  /\ lastOp' = "SerializeNewFramework"
  /\ arg' = <<sdk, name, status, score>>
  /\ ret' = NewFrameworkJson(sdk, name, status, score)
  /\ UNCHANGED <<p, posSet>>

NextSDK ==
  \E sdk \in SDKs, name \in FrameworkNames, status \in FrameworkStatuses,
     score \in Scores : SerializeNewFramework(sdk, name, status, score)

SpecSDK == Init /\ [][NextSDK]_vars

\* --------------------------------------------------------------- round trip
\* the longest framework list and evidence list of a posture that is parsed back
MaxParsedFrameworks == 1
MaxEvidenceRefs == 2

\* Framework.AddControl on a Framework value
WithControl(f, c) == [f EXCEPT !.Controls = Append(@, c)]

\* frameworks as the README builds them: NewFramework, then AddControl
FrameworksWithControls ==
  { NewFramework("SOC2", StatusCompliant, ScoreOne),
    WithControl(NewFramework("SOC2", StatusCompliant, ScoreOne),
                NewControl("CC1.1", "compliant")),
    WithControl(NewFramework("ISO27001", StatusPartial, 8500000),
                NewControl("A.5.1", "partial")) }

\* a plain URL and an EvidenceRef struct
EvidenceRefInputs ==
  { <<"string", "s3://bucket/evidence.zip">>,
    <<"EvidenceRef", [Type |-> "audit_report", URL |-> "https://evidence.acme.com/soc2.pdf"]>> }

\* the caller appends to the exported field: Posture has no method for it
AppendEvidenceRef(e) ==
  /\ Len(p.EvidenceRefs) < MaxEvidenceRefs
  /\ p' = [p EXCEPT !.EvidenceRefs = Append(@, e)]
  /\ lastOp' = "AppendEvidenceRef"
  /\ arg' = <<e>>
  /\ ret' = ReturnsP
  /\ UNCHANGED posSet

\* time.Time.UnmarshalJSON
ParseTime(s) == s[1]

UnmarshalOrganization(doc) ==
  [ Name |-> IF HasKey(doc, "name") THEN Member(doc, "name")[3] ELSE "",
    Domain |-> IF HasKey(doc, "domain") THEN Member(doc, "domain")[3] ELSE "",
    Contact |-> IF HasKey(doc, "contact") THEN Member(doc, "contact")[3] ELSE "" ]

UnmarshalControl(doc) ==
  [ ID |-> IF HasKey(doc, "id") THEN Member(doc, "id")[3] ELSE "",
    Status |-> IF HasKey(doc, "status") THEN Member(doc, "status")[3] ELSE "" ]

\* a missing controls member leaves the slice nil, which the model does not
\* tell from the empty slice NewFramework makes
UnmarshalFramework(doc) ==
  [ Name |-> IF HasKey(doc, "name") THEN Member(doc, "name")[3] ELSE "",
    Status |-> IF HasKey(doc, "status") THEN Member(doc, "status")[3] ELSE "",
    Score |-> IF HasKey(doc, "score") THEN Member(doc, "score")[3] ELSE 0,
    Controls |-> IF HasKey(doc, "controls")
                   THEN LET cs == Member(doc, "controls")[3]
                        IN [i \in 1..Len(cs) |-> UnmarshalControl(cs[i])]
                   ELSE <<>> ]

\* json.Unmarshal into an interface{}: a JSON string becomes a string, a JSON
\* object a map[string]interface{}, whatever Go type it was written from
UnmarshalInterface(v) ==
  IF v[1] = "string" THEN <<"string", v[2]>> ELSE <<"map", v[2]>>

\* json.Unmarshal of a document into a new Posture
UnmarshalPosture(doc) ==
  [ Version |-> IF HasKey(doc, "version") THEN Member(doc, "version")[3] ELSE "",
    Timestamp |-> ParseTime(Member(doc, "timestamp")[3]),
    CompliancePosture |-> IF HasKey(doc, "compliance_posture")
                            THEN Member(doc, "compliance_posture")[3] ELSE "",
    Organization |-> IF HasKey(doc, "organization")
                          /\ Member(doc, "organization")[2] = "object"
                       THEN <<UnmarshalOrganization(Member(doc, "organization")[3])>>
                       ELSE <<>>,
    Frameworks |-> IF HasKey(doc, "frameworks") /\ Member(doc, "frameworks")[2] = "array"
                     THEN LET fs == Member(doc, "frameworks")[3]
                          IN [i \in 1..Len(fs) |-> UnmarshalFramework(fs[i])]
                     ELSE <<>>,
    FrameworksNil |-> ~(HasKey(doc, "frameworks")
                          /\ Member(doc, "frameworks")[2] = "array"),
    EvidenceRefs |-> IF HasKey(doc, "evidence_refs")
                       THEN LET es == Member(doc, "evidence_refs")[3]
                            IN [i \in 1..Len(es) |-> UnmarshalInterface(es[i])]
                       ELSE <<>>,
    Extensions |-> IF HasKey(doc, "extensions")
                     THEN Member(doc, "extensions")[3] ELSE NilMap ]

\* ToJSON, then json.Unmarshal of the bytes into a new Posture: the posture
\* parsed, or the error of ToJSON
RoundTrip ==
  /\ lastOp' = "RoundTrip"
  /\ arg' = <<>>
  /\ ret' = LET m == Marshal(<<p>>, "")
            IN IF m.err # "" THEN [posture |-> <<>>, err |-> m.err]
               ELSE [posture |-> <<UnmarshalPosture(m.data[3])>>, err |-> ""]
  /\ UNCHANGED <<p, posSet>>

NextRoundTrip ==
  \/ NewPosture
  \/ \E f \in FrameworksWithControls :
       Len(p.Frameworks) < MaxParsedFrameworks /\ AddFramework(f)
  \/ \E org \in Organizations : SetOrganization(org)
  \/ \E posture \in CompliancePostures : SetPosture(posture)
  \/ \E key \in ExtensionKeys, value \in ExtensionValues : AddExtension(key, value)
  \/ \E e \in EvidenceRefInputs : AppendEvidenceRef(e)
  \/ RoundTrip

SpecRoundTrip == Init /\ [][NextRoundTrip]_vars

\* --------------------------------------------------------------- middleware
Paths == {"/cpx", "/health"}

RoutedRequests == [Method : Methods, Format : Formats, Path : Paths]

\* how often the function returned by Handler calls the provider for req
HandlerProviderCalls(req) == IF req.Method # "GET" THEN 0 ELSE 1

\* what one request does to the middleware's surroundings: the calls of next
\* and of the provider it causes, and the response the CPX handler writes
\* (<<>> when next answers)
\* Go SDK, the handler returned by Middleware: the path alone decides
MiddlewareOutcome(req, res) ==
  IF req.Path = "/cpx"
    THEN [ nextCalls |-> 0,
           providerCalls |-> HandlerProviderCalls(req),
           response |-> <<HandlerResponse(req, res)>> ]
    ELSE [ nextCalls |-> 1, providerCalls |-> 0, response |-> <<>> ]

\* JS SDK, the function returned by createExpressMiddleware: path and method
\* decide; the express handler calls the provider once
CreateExpressMiddlewareOutcome(req, res) ==
  IF req.Path = "/cpx" /\ req.Method = "GET"
    THEN [ nextCalls |-> 0,
           providerCalls |-> 1,
           response |-> <<CreateExpressHandlerResponse(req, res)>> ]
    ELSE [ nextCalls |-> 1, providerCalls |-> 0, response |-> <<>> ]

\* one request through the Go middleware
Middleware(req, res) ==
  /\ lastOp' = "Middleware"
  /\ arg' = <<req, res>>
  /\ ret' = MiddlewareOutcome(req, res)
  /\ UNCHANGED <<p, posSet>>

\* one request through the JS Express middleware
CreateExpressMiddleware(req, res) ==
  /\ lastOp' = "createExpressMiddleware"
  /\ arg' = <<req, res>>
  /\ ret' = CreateExpressMiddlewareOutcome(req, res)
  /\ UNCHANGED <<p, posSet>>

NextMiddleware ==
  \/ NewPosture
  \/ \E f \in FrameworkInputs :
       Len(p.Frameworks) < MaxServedFrameworks /\ AddFramework(f)
  \/ \E posture \in CompliancePostures : SetPosture(posture)
  \/ \E req \in RoutedRequests, res \in ProviderResults(p) : Middleware(req, res)
  \/ \E req \in RoutedRequests, res \in ProviderResults(p) :
       CreateExpressMiddleware(req, res)

SpecMiddleware == Init /\ [][NextMiddleware]_vars

\* ---------------------------------------------------- aggregation in the SDKs
\* Java SDK, Posture.calculateOverallPosture: isEmpty, allMatch, anyMatch
JavaCalculateOverallPosture(fs) ==
  IF Len(fs) = 0 THEN PostureUnknown
  ELSE LET allCompliant == \A i \in 1..Len(fs) : fs[i].Status = StatusCompliant
           anyCompliant == \E i \in 1..Len(fs) : fs[i].Status = StatusCompliant
       IN IF allCompliant THEN PostureCompliant
          ELSE IF anyCompliant THEN PosturePartiallyCompliant
          ELSE PostureNonCompliant

\* every() alone: it is true of an empty array
JsCalculateOverallPosture_VacuousEvery(fs) ==
  LET allCompliant == \A i \in 1..Len(fs) : fs[i].Status = StatusCompliant
      anyCompliant == \E i \in 1..Len(fs) : fs[i].Status = StatusCompliant
  IN IF allCompliant THEN PostureCompliant
     ELSE IF anyCompliant THEN PosturePartiallyCompliant
     ELSE PostureNonCompliant

\* JS SDK, Posture.calculateOverallPosture: length === 0, every, some
JsCalculateOverallPosture(fs) ==
  IF Len(fs) = 0 THEN PostureUnknown
  ELSE LET allCompliant == \A i \in 1..Len(fs) : fs[i].Status = StatusCompliant
           anyCompliant == \E i \in 1..Len(fs) : fs[i].Status = StatusCompliant
       IN IF allCompliant THEN PostureCompliant
          ELSE IF anyCompliant THEN PosturePartiallyCompliant
          ELSE PostureNonCompliant

\* .NET SDK, Posture.CalculateOverallPosture: Count == 0, All, Any
DotnetCalculateOverallPosture(fs) ==
  IF Len(fs) = 0 THEN PostureUnknown
  ELSE LET allCompliant == \A i \in 1..Len(fs) : fs[i].Status = StatusCompliant
           anyCompliant == \E i \in 1..Len(fs) : fs[i].Status = StatusCompliant
       IN IF allCompliant THEN PostureCompliant
          ELSE IF anyCompliant THEN PosturePartiallyCompliant
          ELSE PostureNonCompliant

\* the roll-up of one SDK over a list of frameworks
SdkCalculateOverallPosture(sdk, fs) ==
  CASE sdk = "go" -> CalculateOverallPosture(fs)
    [] sdk = "java" -> JavaCalculateOverallPosture(fs)
    [] sdk = "js" -> JsCalculateOverallPosture(fs)
    [] sdk = "dotnet" -> DotnetCalculateOverallPosture(fs)

\* the roll-up of one SDK is asked for the frameworks of p
CallSdkCalculateOverallPosture(sdk) ==
  /\ lastOp' = "SdkCalculateOverallPosture"
  /\ arg' = <<sdk>>
  /\ ret' = SdkCalculateOverallPosture(sdk, p.Frameworks)
  /\ UNCHANGED <<p, posSet>>

\* implementation guide, calculateOverallPosture(frameworks): some() for
\* non_compliant, then some() for partial, else compliant
GuideCalculateOverallPosture(fs) ==
  LET hasNonCompliant == \E i \in 1..Len(fs) : fs[i].Status = StatusNonCompliant
      hasPartial == \E i \in 1..Len(fs) : fs[i].Status = StatusPartial
  IN IF hasNonCompliant THEN PostureNonCompliant
     ELSE IF hasPartial THEN PosturePartiallyCompliant
     ELSE PostureCompliant

\* the guide's helper is asked for the frameworks of p
CallGuideCalculateOverallPosture ==
  /\ lastOp' = "GuideCalculateOverallPosture"
  /\ arg' = <<>>
  /\ ret' = GuideCalculateOverallPosture(p.Frameworks)
  /\ UNCHANGED <<p, posSet>>

NextAggregation ==
  \/ NewPosture
  \/ \E f \in FrameworkInputs : AddFramework(f)
  \/ \E sdk \in SDKs : CallSdkCalculateOverallPosture(sdk)
  \/ CallGuideCalculateOverallPosture

SpecAggregation == Init /\ [][NextAggregation]_vars

\* ------------------------------------------------------- concurrent requests
\* net/http runs the function returned by Handler once per request, each run
\* on its own goroutine with its own w, r, posture, err and data; the runs
\* share the provider and whatever it points at. Here p is the posture the
\* application's provider hands out, arg[i] is the i-th request received and
\* ret[i] the state of the run serving it.
MaxRequests == 2

\* postures an application builds before it starts to serve: nothing added,
\* one framework added, an extension json cannot encode added
SharedPostures ==
  { NewPostureValue(1),
    [NewPostureValue(1) EXCEPT
       !.Frameworks = <<NewFramework("SOC2", StatusCompliant, ScoreOne)>>],
    [NewPostureValue(1) EXCEPT
       !.Extensions = [k \in ExtensionKeys |-> ChanValue]] }

\* what provider() returns: nil or the pointer to p, and an error or nil
PointerResults == [shared : BOOLEAN, err : {""} \cup ProviderErrors]

\* the result with the pointer followed
Deref(res) ==
  [posture |-> IF res.shared THEN <<p>> ELSE <<>>, err |-> res.err]

InitConcurrent ==
  /\ p \in SharedPostures
  /\ lastOp = "ListenAndServe"
  /\ arg = <<>>
  /\ ret = <<>>
  /\ posSet = FALSE

\* a request arrives and a run of the handler starts at its first line
Receive(req) ==
  /\ Len(arg) < MaxRequests
  /\ lastOp' = "Receive"
  /\ arg' = Append(arg, req)
  /\ ret' = Append(ret, [pc |-> "method", local |-> <<>>, returned |-> <<>>,
                         trace |-> <<>>, response |-> <<>>])
  /\ UNCHANGED <<p, posSet>>

\* a handler that asks the provider before it looks at the method
CheckMethod_ProviderFirst(i) ==
  /\ ret[i].pc = "method"
  /\ lastOp' = "CheckMethod"
  /\ ret' = [ret EXCEPT ![i] =
       IF arg[i].Method # "GET"
         THEN [@ EXCEPT !.pc = "done",
                        !.trace = Append(Append(@, "provider"), "write"),
                        !.response = <<HttpError(EmptyHeader, "Method not allowed", 405)>>]
         ELSE [@ EXCEPT !.pc = "provider"]]
  /\ UNCHANGED <<p, arg, posSet>>

\* if r.Method != http.MethodGet: the 405 is written and the run returns
CheckMethod(i) ==
  /\ ret[i].pc = "method"
  /\ lastOp' = "CheckMethod"
  /\ ret' = [ret EXCEPT ![i] =
       IF arg[i].Method # "GET"
         THEN [@ EXCEPT !.pc = "done",
                        !.trace = Append(@, "write"),
                        !.response = <<HttpError(EmptyHeader, "Method not allowed", 405)>>]
         ELSE [@ EXCEPT !.pc = "provider"]]
  /\ UNCHANGED <<p, arg, posSet>>

\* a handler whose posture and err are declared outside the returned
\* function: every run reads the values the latest provider call left there
CallProvider_SharedResult(i, res) ==
  /\ ret[i].pc = "provider"
  /\ lastOp' = "CallProvider"
  /\ ret' = [j \in 1..Len(ret) |->
       IF j = i
         THEN [ret[j] EXCEPT !.pc = "write", !.local = <<res>>,
                             !.returned = <<res>>,
                             !.trace = Append(@, "provider")]
         ELSE [ret[j] EXCEPT !.local = <<res>>]]
  /\ UNCHANGED <<p, arg, posSet>>

\* posture, err := provider(): the result goes to the run's own variables
\* (returned is the same value, kept as the record of what the provider gave
\* this run)
CallProvider(i, res) ==
  /\ ret[i].pc = "provider"
  /\ lastOp' = "CallProvider"
  /\ ret' = [ret EXCEPT ![i] =
       [@ EXCEPT !.pc = "write", !.local = <<res>>, !.returned = <<res>>,
                 !.trace = Append(@, "provider")]]
  /\ UNCHANGED <<p, arg, posSet>>

\* the rest of the run: the err test, the format test, MarshalIndent of what
\* the pointer leads to now, and the writes to w; w belongs to this run, so
\* the writes are one step
WriteResponse(i) ==
  /\ ret[i].pc = "write"
  /\ lastOp' = "WriteResponse"
  /\ ret' = [ret EXCEPT ![i] =
       [@ EXCEPT !.pc = "done",
                 !.trace = Append(@, "write"),
                 !.response = <<HandlerResponse(arg[i], Deref(ret[i].local[1]))>>]]
  /\ UNCHANGED <<p, arg, posSet>>

NextConcurrent ==
  \/ \E req \in Requests : Receive(req)
  \/ \E i \in 1..Len(ret) : CheckMethod(i)
  \/ \E i \in 1..Len(ret), res \in PointerResults : CallProvider(i, res)
  \/ \E i \in 1..Len(ret) : WriteResponse(i)

SpecConcurrent == InitConcurrent /\ [][NextConcurrent]_vars

\* ------------------------------------------------- the caller's Framework
\* The application keeps a Framework in a variable of its own (soc2 in the
\* README), adds controls to it and passes it to AddFramework. Here arg is
\* that variable: <<>> before it is declared, <<f>> after.
MaxControls == 2
MaxCallerFrameworks == 1

ControlInputs ==
  { NewControl("CC1.1", "compliant"), NewControl("CC6.1", "non_compliant") }

\* soc2 := cpx.NewFramework(name, status, score)
CallNewFramework(name, status, score) ==
  /\ p' = p
  /\ lastOp' = "NewFramework"
  /\ arg' = <<NewFramework(name, status, score)>>
  /\ ret' = ReturnsP
  /\ UNCHANGED posSet

\* an AddControl that reaches the framework stored in the posture, as it
\* would if AddFramework kept a pointer to the caller's variable
AddControl_WritesThrough(c) ==
  /\ arg # <<>>
  /\ Len(arg[1].Controls) < MaxControls
  /\ p' = [p EXCEPT !.Frameworks =
             [i \in 1..Len(@) |-> IF i = Len(@) /\ @[i] = arg[1]
                                     THEN WithControl(@[i], c) ELSE @[i]]]
  /\ lastOp' = "AddControl"
  /\ arg' = <<WithControl(arg[1], c)>>
  /\ ret' = ReturnsP
  /\ UNCHANGED posSet

\* soc2.AddControl(c): the pointer receiver is the caller's variable, whose
\* Controls gets the result of append; the posture holds a copy of the struct
\* made when AddFramework was called, with its own slice header
AddControl(c) ==
  /\ arg # <<>>
  /\ Len(arg[1].Controls) < MaxControls
  /\ p' = p
  /\ lastOp' = "AddControl"
  /\ arg' = <<WithControl(arg[1], c)>>
  /\ ret' = ReturnsP
  /\ UNCHANGED posSet

NextCaller ==
  \/ NewPosture
  \/ \E name \in FrameworkNames : CallNewFramework(name, StatusCompliant, ScoreOne)
  \/ \E c \in ControlInputs : AddControl(c)
  \/ arg # <<>> /\ Len(p.Frameworks) < MaxCallerFrameworks /\ AddFramework(arg[1])

SpecCaller == Init /\ [][NextCaller]_vars

\* ------------------------------------------------------------------ claims
\* what the claims call a well-formed framework: score in [0, 1], name not empty
ValidFramework(f) == f.Score >= 0 /\ f.Score <= ScoreOne /\ f.Name # ""

Statuses(fs) == {fs[i].Status : i \in 1..Len(fs)}

Called(op) == lastOp = op

C2_MixedIsPartiallyCompliant ==
  (Called("CalculateOverallPosture")
     /\ StatusCompliant \in Statuses(p.Frameworks)
     /\ Statuses(p.Frameworks) # {StatusCompliant})
  => ret = PosturePartiallyCompliant

\* the call was made on [partial, compliant]: the compliant one comes last
C2_Witness ==
  /\ Called("CalculateOverallPosture")
  /\ Len(p.Frameworks) = 2
  /\ p.Frameworks[1].Status = StatusPartial
  /\ p.Frameworks[2].Status = StatusCompliant
  /\ ret = PosturePartiallyCompliant

\* C3: on a non-empty list of compliant frameworks only
\* CalculateOverallPosture returns compliant.
C3_AllCompliantIsCompliant ==
  (Called("CalculateOverallPosture") /\ Statuses(p.Frameworks) = {StatusCompliant})
  => ret = PostureCompliant

\* the call was made on two compliant frameworks
C3_Witness ==
  /\ Called("CalculateOverallPosture")
  /\ Len(p.Frameworks) = 2
  /\ Statuses(p.Frameworks) = {StatusCompliant}
  /\ ret = PostureCompliant

\* C4: CalculateOverallPosture returns unknown exactly when the framework
\* list is empty.
C4_UnknownIffEmpty ==
  Called("CalculateOverallPosture")
  => (ret = PostureUnknown <=> Len(p.Frameworks) = 0)

\* the call was made on a posture no framework was added to
C4_Witness ==
  /\ Called("CalculateOverallPosture")
  /\ Len(p.Frameworks) = 0
  /\ ret = PostureUnknown

\* the call was made on a posture holding frameworks
C4_WitnessNonEmpty ==
  /\ Called("CalculateOverallPosture")
  /\ Len(p.Frameworks) > 0
  /\ ret # PostureUnknown

\* C5: as long as SetPosture was never called, the posture's
\* CompliancePosture field equals CalculateOverallPosture of its frameworks.
C5_UnsetFieldEqualsAggregation ==
  ~posSet => p.CompliancePosture = CalculateOverallPosture(p.Frameworks)

\* C6: a newly created Posture has version "v1", overall posture unknown
\* and an empty framework list.
C6_NewPostureDefaults ==
  Called("NewPosture")
  => /\ p.Version = "v1"
     /\ p.CompliancePosture = PostureUnknown
     /\ p.Frameworks = <<>>

\* C7: AddFramework accepts a framework exactly when its score is in [0, 1]
\* and its name is not empty; any other framework fails with a
\* ValidationError at the call.
C7_AddFrameworkValidates ==
  Called("AddFramework")
  => IF ValidFramework(arg[1]) THEN ret = ReturnsP ELSE ret = "ValidationError"

\* C8: every framework held in the posture has a score in [0, 1] and a
\* non-empty name.
C8_FrameworksValid ==
  \A i \in 1..Len(p.Frameworks) : ValidFramework(p.Frameworks[i])

\* C9: a call of CalculateOverallPosture leaves every field of the Posture
\* as it was, and a second call right after the first returns the same value.
C9_CalculateIsPureRead ==
  [][ (lastOp' = "CalculateOverallPosture")
        => /\ p' = p
           /\ (lastOp = "CalculateOverallPosture" => ret' = ret) ]_vars

\* the call returned a value other than the one the field holds, and the
\* field was left alone
C9_Witness ==
  /\ Called("CalculateOverallPosture")
  /\ ret = PosturePartiallyCompliant
  /\ p.CompliancePosture = PostureCompliant
  /\ p.Organization # <<>>

\* C10: SetPosture and SetOrganization write their argument into their own
\* field and nothing else; no other builder method writes either field, so
\* each field holds the argument of the latest call of its setter.
C10_SettersLastWriteWins ==
  [][ /\ (lastOp' = "SetPosture")
           => p' = [p EXCEPT !.CompliancePosture = arg'[1]]
      /\ (lastOp' = "SetOrganization")
           => p' = [p EXCEPT !.Organization = <<arg'[1]>>]
      /\ (lastOp' \notin {"SetPosture", "NewPosture"})
           => p'.CompliancePosture = p.CompliancePosture
      /\ (lastOp' \notin {"SetOrganization", "NewPosture"})
           => p'.Organization = p.Organization ]_vars

\* SetPosture overwrote an earlier value on a posture whose other fields
\* were all set; they are still there
C10_Witness ==
  /\ Called("SetPosture")
  /\ arg = <<PostureNonCompliant>>
  /\ p.CompliancePosture = PostureNonCompliant
  /\ p.Organization # <<>>
  /\ Len(p.Frameworks) = MaxFrameworks
  /\ DOMAIN p.Extensions # {}

\* a serialization call and the members of the document it returned
Serialized == lastOp \in {"ToJSON", "ToJSONIndent"} /\ ret.err = ""

\* C11: AddFramework puts its argument at the end of the framework list and
\* keeps what was there; no other method of a posture changes the list, so
\* the list is the accepted frameworks in call order.
C11_AddFrameworkAppends ==
  [][ /\ (lastOp' = "AddFramework")
           => p'.Frameworks = Append(p.Frameworks, arg'[1])
      /\ (lastOp' \notin {"AddFramework", "NewPosture"})
           => p'.Frameworks = p.Frameworks ]_vars

\* two different frameworks were added, the second one last, around a
\* SetOrganization call; the list holds them in call order
C11_Witness ==
  /\ Called("AddFramework")
  /\ Len(p.Frameworks) = 2
  /\ p.Frameworks[1].Name = "ISO27001"
  /\ p.Frameworks[2].Name = "SOC2"
  /\ arg = <<p.Frameworks[2]>>
  /\ p.Organization # <<>>

\* C12: the posture's schema version is "v1", hence present and not empty,
\* in every state the builder methods reach.
C12_VersionIsV1 == p.Version = "v1" /\ p.Version # ""

\* every builder method has been used on the posture
C12_Witness ==
  /\ Called("AddExtension")
  /\ posSet
  /\ p.Organization # <<>>
  /\ Len(p.Frameworks) = MaxFrameworks
  /\ p.Version = "v1"

\* C13: ToJSON and ToJSONIndent leave every field of the Posture as it was,
\* timestamp included, and a serialization that follows another one with no
\* mutation in between yields the same document.
C13_SerializationDoesNotMutate ==
  [][ (lastOp' \in {"ToJSON", "ToJSONIndent"})
        => /\ p' = p
           /\ (lastOp \in {"ToJSON", "ToJSONIndent"})
                => /\ ret'.err = ret.err
                   /\ (ret.err = "" => ret'.data[3] = ret.data[3])
                   /\ (lastOp' = lastOp => ret' = ret) ]_vars

\* a posture with a framework and an organization was serialized
C13_Witness ==
  /\ Called("ToJSONIndent")
  /\ ret.err = ""
  /\ Member(ret.data[3], "timestamp")[3] = FormatTime(p.Timestamp)
  /\ Len(p.Frameworks) > 0
  /\ p.Organization # <<>>

\* C14: the serialized document has an organization member exactly when the
\* posture holds an organization, and a posture holds one exactly when
\* SetOrganization was called on it: NewPosture leaves the field nil and no
\* other method writes it.
C14_OrganizationOmittedUnlessSet ==
  /\ [](Serialized =>
          /\ HasKey(ret.data[3], "organization") <=> p.Organization # <<>>
          /\ HasKey(ret.data[3], "organization")
               => Member(ret.data[3], "organization")[2] = "object")
  /\ [][ /\ (lastOp' = "NewPosture") => p'.Organization = <<>>
         /\ (lastOp' = "SetOrganization") => p'.Organization # <<>>
         /\ (lastOp' \notin {"NewPosture", "SetOrganization"})
              => p'.Organization = p.Organization ]_vars

\* a posture SetOrganization was not called on was serialized: no member
C14_Witness ==
  /\ Serialized
  /\ p.Organization = <<>>
  /\ ~HasKey(ret.data[3], "organization")
  /\ Len(p.Frameworks) > 0
  /\ posSet

\* C15: the serialized document always has a frameworks member and it is an
\* array, the empty array when no framework was added.
C15_FrameworksAlwaysPresent ==
  Serialized
  => /\ HasKey(ret.data[3], "frameworks")
     /\ Member(ret.data[3], "frameworks")[2] = "array"
     /\ Len(Member(ret.data[3], "frameworks")[3]) = Len(p.Frameworks)

\* a posture without frameworks, its other fields set, was serialized
C15_Witness ==
  /\ Serialized
  /\ Len(p.Frameworks) = 0
  /\ Member(ret.data[3], "frameworks") = <<"frameworks", "array", <<>>>>
  /\ p.Organization # <<>>
  /\ posSet

\* C16: a framework made by an SDK's constructor, with no control added,
\* serializes without a controls member, in every SDK.
C16_NoControlsMember ==
  Called("SerializeNewFramework") => ~HasKey(ret, "controls")

\* C17: a request whose method is not GET is answered with status 405 by the
\* CPX handler, whatever the provider returns.
C17_NonGetIs405 ==
  (lastOp \in {"Handler", "createExpressHandler"} /\ arg[1].Method # "GET")
  => ret.Status = 405

\* C18: when the provider fails on a GET request the handler answers 500, and
\* the body of every 500 is the JSON envelope {"error": "Internal server error"}.
C18_ErrorEnvelope ==
  (Called("Handler") /\ arg[1].Method = "GET")
  => /\ arg[2].err # "" => ret.Status = 500
     /\ ret.Status = 500
          => /\ ret.Body[1] = "object"
             /\ ret.Body[2] = <<<<"error", "string", "Internal server error">>>>
             /\ ret.Header["Content-Type"] = "application/json"

\* C19: when the provider succeeds on a GET request the handler answers 200
\* with the serialization of the provider's posture as body and the header
\* X-CPX-Version set to "v1".
C19_SuccessIs200 ==
  (Called("Handler") /\ arg[1].Method = "GET" /\ arg[2].err = "")
  => /\ ret.Status = 200
     /\ ret.Body = <<"bytes", Marshal(arg[2].posture, "  ").data>>
     /\ "X-CPX-Version" \in DOMAIN ret.Header
     /\ ret.Header["X-CPX-Version"] = "v1"

\* C20: a GET request with format=yaml and a provider that succeeds is
\* answered successfully, with the posture in YAML.
C20_YamlServed ==
  (Called("Handler") /\ arg[1].Method = "GET" /\ arg[1].Format = "yaml"
     /\ arg[2].err = "")
  => /\ ret.Status = 200
     /\ ret.Body[1] = "yaml"

\* C21: the response to a GET request whose provider fails is the same
\* whatever error the provider returned, and the error text is not in it.
C21_NoErrorLeak ==
  (Called("Handler") /\ arg[1].Method = "GET" /\ arg[2].err # "")
  => /\ \A e \in ProviderErrors :
          ret = HandlerResponse(arg[1], [arg[2] EXCEPT !.err = e])
     /\ ret.Body[2] \notin ProviderErrors
     /\ \A k \in DOMAIN ret.Header : ret.Header[k] \notin ProviderErrors

\* a GET request was served while the provider failed with an error that
\* carries a secret
C21_Witness ==
  /\ Called("Handler")
  /\ arg[1].Method = "GET"
  /\ arg[2].err = "vault: token s.3cr3t expired"
  /\ ret.Status = 500

\* C22: a 200 response carries a posture document with the members version,
\* timestamp, compliance_posture and frameworks; a provider that returns no
\* posture and no error is not answered with 200.
C22_OnlyPostureDocuments ==
  (Called("Handler") /\ ret.Status = 200)
  => /\ arg[2].posture # <<>>
     /\ ret.Body[2][1] = "object"
     /\ \A key \in {"version", "timestamp", "compliance_posture", "frameworks"} :
          HasKey(ret.Body[2][3], key)

\* C23: when a framework carries a status that is none of compliant, partial,
\* non_compliant, CalculateOverallPosture reports a validation error.
C23_UnknownStatusRejected ==
  (Called("CalculateOverallPosture")
     /\ \E i \in 1..Len(p.Frameworks) : p.Frameworks[i].Status \notin FrameworkStatuses)
  => ret = "ValidationError"

\* C24: parsing the serialized form of a posture built with the builder
\* operations yields a posture equal to it, field by field.
C24_RoundTrip ==
  Called("RoundTrip") => (ret.err = "" /\ ret.posture = <<p>>)

\* C25: a middleware hands a request to the CPX handler exactly when its path
\* is "/cpx", whatever the method: then next is not called; for any other path
\* next is called once and the provider is not called.
C25_DispatchOnPathOnly ==
  (Called("Middleware") \/ Called("createExpressMiddleware")) =>
    IF arg[1].Path = "/cpx"
      THEN ret.response # <<>> /\ ret.nextCalls = 0
      ELSE ret.response = <<>> /\ ret.nextCalls = 1 /\ ret.providerCalls = 0

\* C26: for every list of frameworks the roll-ups of the Go, Java, JS and
\* .NET SDKs return the same overall posture.
C26_SdkAggregationsAgree ==
  Called("SdkCalculateOverallPosture") =>
    /\ ret = CalculateOverallPosture(p.Frameworks)
    /\ \A sdk \in SDKs :
         SdkCalculateOverallPosture(sdk, p.Frameworks) = ret

C26_Witness ==
  /\ Called("SdkCalculateOverallPosture")
  /\ arg[1] = "js"
  /\ Len(p.Frameworks) = 2
  /\ p.Frameworks[1].Status = StatusPartial
  /\ p.Frameworks[2].Status = StatusCompliant
  /\ ret = PosturePartiallyCompliant

\* C27: the Go handler calls the provider once for a GET request, format=yaml
\* included, and never for another method; the call comes before anything is
\* written for that request.
C27_ProviderOncePerGet ==
  \A i \in 1..Len(ret) :
    /\ arg[i].Method # "GET" =>
         ret[i].trace \in {<<>>, <<"write">>}
    /\ arg[i].Method = "GET" =>
         ret[i].trace \in {<<>>, <<"provider">>, <<"provider", "write">>}
    /\ ret[i].pc = "done" =>
         ret[i].trace = IF arg[i].Method = "GET" THEN <<"provider", "write">>
                        ELSE <<"write">>

C27_Witness ==
  \E i \in 1..Len(ret) :
    /\ arg[i] = [Method |-> "GET", Format |-> "yaml"]
    /\ ret[i].pc = "done"
    /\ ret[i].trace = <<"provider", "write">>
    /\ ret[i].response[1].Status = 501

\* the response of a run that served request req alone and was given result
\* returned by the provider
AloneResponse(req, returned) ==
  HandlerResponse(req, IF returned = <<>> THEN [posture |-> <<>>, err |-> ""]
                       ELSE Deref(returned[1]))

\* C28: the handler keeps nothing between requests and does not write to the
\* posture of the provider: however concurrent requests interleave, each is
\* answered as it would be alone, the same posture handed to all included.
C28_RequestsIndependent ==
  /\ [](\A i \in 1..Len(ret) :
          ret[i].pc = "done" =>
            ret[i].response = <<AloneResponse(arg[i], ret[i].returned)>>)
  /\ [][p' = p]_vars

\* the second request is served from start to end between the provider call
\* and the response of the first, both given the same posture
C28_Witness ==
  /\ Len(ret) = 2
  /\ lastOp = "WriteResponse"
  /\ ret[1].pc = "write" /\ ret[1].returned = <<[shared |-> TRUE, err |-> ""]>>
  /\ ret[2].pc = "done" /\ ret[2].returned = <<[shared |-> TRUE, err |-> ""]>>
  /\ ret[2].response[1].Status = 200

\* C29: AddFramework stores a copy: AddControl on the caller's Framework adds
\* a control to that variable and leaves the frameworks stored in the posture,
\* and so their numbers of controls, as they were; a stored framework has the
\* controls its variable had when AddFramework was called.
C29_StoredFrameworkIsACopy ==
  [][ /\ lastOp' = "AddControl" =>
           /\ Len(arg'[1].Controls) = Len(arg[1].Controls) + 1
           /\ p'.Frameworks = p.Frameworks
      /\ lastOp' = "AddFramework" =>
           p'.Frameworks[Len(p'.Frameworks)] = arg[1] ]_vars

\* the variable has a control the stored copy of it lacks
C29_Witness ==
  /\ lastOp = "AddControl"
  /\ Len(p.Frameworks) = 1
  /\ p.Frameworks[1].Name = arg[1].Name
  /\ Len(p.Frameworks[1].Controls) = 1
  /\ Len(arg[1].Controls) = 2
  /\ arg[1].Controls[1] = p.Frameworks[1].Controls[1]

\* C30: the helper of the implementation guide returns what the SDK's
\* CalculateOverallPosture returns, for every list of frameworks, the empty
\* one and those without a compliant framework included.
C30_GuideAgreesWithSdk ==
  Called("GuideCalculateOverallPosture") =>
    ret = CalculateOverallPosture(p.Frameworks)

====
